---- MODULE Spec2Model ----
(***************************************************************************)
(* Model of examples/video_displayer/src/main.rs: the capture -> convert  *)
(* -> render pipeline.  Three concurrent units run on the tokio runtime:  *)
(* main (set-up, Render Loop, shutdown), the conversion task and the      *)
(* capture-driving task.  The Capture Source (enc_video::i_capture) and   *)
(* the window (minifb) are collaborators; their outcomes are inputs.      *)
(*                                                                         *)
(* Frames carry an auxiliary field id: the arrival index of the Raw Frame *)
(* they were made from (0 for the initial black frame).  The program does *)
(* not read it.  Variables named h* are history variables, also unread.   *)
(* A panic in a spawned task unwinds that task only (tokio's default):    *)
(* main keeps running.  When main returns or panics the process ends and  *)
(* no task takes another step.                                            *)
(***************************************************************************)
EXTENDS Integers, Sequences, FiniteSets, TLC

\* ----------------------------------------------------------------- bounds
MaxWidth == 2
MaxHeight == 1
MaxFrames == 3
MaxRawQueue == 2
MaxStride == 2

\* ------------------------------------------------------ program constants
RelayCapacity == 2
BytesPerPixel == 4

ByteSamples == {0, 1, 128, 255}

\* <<width, height>> of the sources the pipeline is run on
SourceDims == {<<1, 1>>, <<2, 1>>}

VARIABLES
    width, height,      \* dimensions of the Capture Source (line 25-26)
    pc,                 \* main's position
    result,             \* what main returned: "none" while it runs
    dimsResult,         \* outcome of get_dimensions()
    chanCreated,        \* the Frame Relay exists (line 29)
    relay,              \* frames queued in the mpsc channel, oldest first
    current_frame,      \* the Displayed Frame
    windowCreated,      \* create_window returned (line 77)
    windowOpen,         \* window.is_open()
    escPressed,         \* window.is_key_pressed(Escape)
    convPc,             \* the conversion task's position
    lockHeld,           \* the conversion task holds recv's mutex guard
    data,               \* the conversion task's `data`: <<>> is None, <<raw>> is Some(raw)
    frame_u32,          \* the conversion task's converted frame
    capPc,              \* the capture-driving task's position
    capState,           \* Capture Source: Idle, Capturing, Stopped
    startCalls,         \* start_capturing() calls made
    stopCalls,          \* stop_capturing() calls made
    stopResult,         \* outcome of stop_capturing(): "none" until it completes
    rawQ,               \* Raw Frames waiting at the receive endpoint
    streamClosed,       \* the raw-frame stream has no sender left
    arrived,            \* Raw Frames delivered so far
    hConvLast,          \* outcome of the conversion task's last iteration
    hExit,              \* why the Render Loop ended
    hBatch,             \* ids offered to the relay since the last poll ended
    hMidPoll,           \* a frame was offered while the current poll ran
    hPolled,            \* a poll has ended
    hPrevBatch,         \* the ids offered strictly between the last two polls, in
                        \* order: <<>> if there was no earlier poll or a frame was
                        \* offered while the last poll ran
    hSkipped,           \* ids of such batches that were not the Displayed Frame
                        \* when the poll that followed them ended
    hShown,             \* ids of the frames drawn to the window
    hLastInserted,      \* id of the last frame try_send put into the relay, 0 if none
    hStartFrame,        \* while a poll runs: the Displayed Frame when it started
    hStartQueued,       \* while a poll runs: ids queued in the relay when it started
    hPopped             \* while a poll runs: it has taken a frame from the relay

vars == <<width, height, pc, result, dimsResult, chanCreated, relay, current_frame,
          windowCreated, windowOpen, escPressed, convPc, lockHeld, data, frame_u32,
          capPc, capState, startCalls, stopCalls, stopResult, rawQ, streamClosed,
          arrived, hConvLast, hExit, hBatch, hMidPoll, hPolled, hPrevBatch, hSkipped,
          hShown, hLastInserted, hStartFrame, hStartQueued, hPopped>>

pollVars == <<hStartFrame, hStartQueued, hPopped>>
mainVars == <<pc, result, dimsResult, chanCreated, current_frame, windowCreated,
              stopCalls, stopResult, hExit, hPolled, hPrevBatch, hSkipped, hShown,
              pollVars>>
envVars == <<windowOpen, escPressed>>
convVars == <<convPc, lockHeld, data, frame_u32, hConvLast>>
capVars == <<capPc, startCalls>>
srcVars == <<capState, rawQ, streamClosed, arrived>>
dimVars == <<width, height>>
batchVars == <<hBatch, hMidPoll, hLastInserted>>

\* ------------------------------------------------------------ pure helpers
RECURSIVE BitOr(_, _)
BitOr(a, b) ==
    IF a = 0 THEN b
    ELSE IF b = 0 THEN a
    ELSE (IF (a % 2 = 1) \/ (b % 2 = 1) THEN 1 ELSE 0) + 2 * BitOr(a \div 2, b \div 2)

RECURSIVE Pow2(_)
Pow2(n) == IF n = 0 THEN 1 ELSE 2 * Pow2(n - 1)

\* x << n for a byte x widened to u32 and n <= 16: below 2^24, nothing is shifted out
Shl(x, n) == x * Pow2(n)

\* raw_data[j], j counted from 0 as in the source
At(raw, j) == raw[j + 1]

\* PackPixel reading the channels as (R, G, B, A)
PackPixelSwapped(raw, i) ==
    LET r == At(raw, i * 4)
        g == At(raw, i * 4 + 1)
        b == At(raw, i * 4 + 2)
    IN  BitOr(BitOr(Shl(r, 16), Shl(g, 8)), b)

\* lines 49-52: one pixel
PackPixel(raw, i) ==
    LET b == At(raw, i * 4)
        g == At(raw, i * 4 + 1)
        r == At(raw, i * 4 + 2)
    IN  BitOr(BitOr(Shl(r, 16), Shl(g, 8)), b)

\* lines 49-51 index raw_data out of bounds for some pixel: the task panics
ConvertPanics(raw, w, h) ==
    \E i \in 0..(w * h - 1) : \E off \in 0..2 : i * 4 + off >= Len(raw)

\* lines 47-53
Convert(raw, w, h) == [k \in 1..(w * h) |-> PackPixel(raw, k - 1)]

\* Black as Vec::new(): no pixels
BlackUnsized(w, h) == <<>>

\* vec![0u32; width * height]
Black(w, h) == [k \in 1..(w * h) |-> 0]

\* A Raw Frame of len bytes: pixel bytes start at base and move by stride
RawBytes(base, stride, len) ==
    [j \in 1..len |-> (base[((j - 1) % 4) + 1] + ((j - 1) \div 4) * stride) % 256]

\* The Raw Frame delivered as the k-th, cut to len bytes
RawOf(k, len) == RawBytes(<<k, 16 + k, 32 + k, 255>>, 64, len)

FullLen(w, h) == w * h * BytesPerPixel

RawLens(w, h) == {0, FullLen(w, h) - 2, FullLen(w, h)}

\* the value a frame variable has before the program has given it one
NoFrame == [id |-> 0, px |-> <<>>]

Running == pc \notin {"returned", "panicked"}

\* ------------------------------------------------------------------- Init
Init ==
    /\ \E d \in SourceDims : width = d[1] /\ height = d[2]
    /\ pc = "get_dimensions"
    /\ result = "none"
    /\ dimsResult = "none"
    /\ chanCreated = FALSE
    /\ relay = <<>>
    /\ current_frame = NoFrame
    /\ windowCreated = FALSE
    /\ windowOpen = FALSE
    /\ escPressed = FALSE
    /\ convPc = "unspawned"
    /\ lockHeld = FALSE
    /\ data = <<>>
    /\ frame_u32 = NoFrame
    /\ capPc = "unspawned"
    /\ capState = "Idle"
    /\ startCalls = 0
    /\ stopCalls = 0
    /\ stopResult = "none"
    /\ rawQ = <<>>
    /\ streamClosed = FALSE
    /\ arrived = 0
    /\ hConvLast = "none"
    /\ hExit = "none"
    /\ hBatch = <<>>
    /\ hMidPoll = FALSE
    /\ hPolled = FALSE
    /\ hPrevBatch = <<>>
    /\ hSkipped = {}
    /\ hShown = {}
    /\ hLastInserted = 0
    /\ hStartFrame = NoFrame
    /\ hStartQueued = {}
    /\ hPopped = FALSE

\* ------------------------------------------------------------ main: set-up
\* GetDimensions without the `?`: main goes on after a failure
GetDimensionsSwallowed ==
    /\ pc = "get_dimensions"
    /\ \E ok \in BOOLEAN : dimsResult' = IF ok THEN "ok" ELSE "err"
    /\ pc' = "channel"
    /\ UNCHANGED <<result, chanCreated, current_frame, windowCreated, stopCalls,
                   stopResult, hExit, hPolled, hPrevBatch, hSkipped, hShown>>
    /\ UNCHANGED <<relay, envVars, convVars, capVars, srcVars, dimVars, batchVars,
                   pollVars>>

\* line 25: capture.get_dimensions()?
GetDimensions ==
    /\ pc = "get_dimensions"
    /\ \E ok \in BOOLEAN :
        IF ok
        THEN /\ dimsResult' = "ok"
             /\ pc' = "channel"
             /\ result' = result
        ELSE /\ dimsResult' = "err"
             /\ pc' = "returned"
             /\ result' = "SourceUnavailable"
    /\ UNCHANGED <<chanCreated, current_frame, windowCreated, stopCalls, stopResult,
                   hExit, hPolled, hPrevBatch, hSkipped, hShown>>
    /\ UNCHANGED <<relay, envVars, convVars, capVars, srcVars, dimVars, batchVars,
                   pollVars>>

\* line 29: mpsc::channel::<Vec<u32>>(2)
CreateChannel ==
    /\ pc = "channel"
    /\ chanCreated' = TRUE
    /\ relay' = <<>>
    /\ pc' = "spawn_conv"
    /\ UNCHANGED <<result, dimsResult, current_frame, windowCreated, stopCalls,
                   stopResult, hExit, hPolled, hPrevBatch, hSkipped, hShown>>
    /\ UNCHANGED <<envVars, convVars, capVars, srcVars, dimVars, batchVars,
                   pollVars>>

\* lines 32-33: tokio::spawn of the conversion task
SpawnConversion ==
    /\ pc = "spawn_conv"
    /\ convPc' = "lock"
    /\ pc' = "spawn_cap"
    /\ UNCHANGED <<result, dimsResult, chanCreated, current_frame, windowCreated,
                   stopCalls, stopResult, hExit, hPolled, hPrevBatch, hSkipped, hShown>>
    /\ UNCHANGED <<lockHeld, data, frame_u32, hConvLast>>
    /\ UNCHANGED <<relay, envVars, capVars, srcVars, dimVars, batchVars,
                   pollVars>>

\* lines 64-65: tokio::spawn of the capture-driving task
SpawnCapture ==
    /\ pc = "spawn_cap"
    /\ capPc' = "start"
    /\ pc' = "init_frame"
    /\ UNCHANGED <<result, dimsResult, chanCreated, current_frame, windowCreated,
                   stopCalls, stopResult, hExit, hPolled, hPrevBatch, hSkipped, hShown>>
    /\ UNCHANGED startCalls
    /\ UNCHANGED <<relay, envVars, convVars, srcVars, dimVars, batchVars,
                   pollVars>>

\* line 75: let mut current_frame = vec![0u32; width * height]
InitFrame ==
    /\ pc = "init_frame"
    /\ current_frame' = [id |-> 0, px |-> Black(width, height)]
    /\ pc' = "create_window"
    /\ UNCHANGED <<result, dimsResult, chanCreated, windowCreated, stopCalls,
                   stopResult, hExit, hPolled, hPrevBatch, hSkipped, hShown>>
    /\ UNCHANGED <<relay, envVars, convVars, capVars, srcVars, dimVars, batchVars,
                   pollVars>>

\* line 77 and lines 130-139: Window::new(..).expect(..)
CreateWindow ==
    /\ pc = "create_window"
    /\ \E ok \in BOOLEAN :
        IF ok
        THEN /\ windowCreated' = TRUE
             /\ windowOpen' = TRUE
             /\ pc' = "loop_check"
        ELSE /\ windowCreated' = windowCreated
             /\ windowOpen' = windowOpen
             /\ pc' = "panicked"
    /\ UNCHANGED <<result, dimsResult, chanCreated, current_frame, stopCalls,
                   stopResult, hExit, hPolled, hPrevBatch, hSkipped, hShown>>
    /\ UNCHANGED <<relay, escPressed, convVars, capVars, srcVars, dimVars, batchVars,
                   pollVars>>

\* ------------------------------------------------- the Frame Relay (tokio mpsc)
\* TrySend on a channel without a capacity
TrySendUnbounded(q, f) == [ok |-> TRUE, q |-> Append(q, f)]

\* TrySend that makes room by giving up the oldest queued frame
TrySendDropOldest(q, f) ==
    IF Len(q) < RelayCapacity
    THEN [ok |-> TRUE, q |-> Append(q, f)]
    ELSE [ok |-> TRUE, q |-> Append(Tail(q), f)]

\* line 56: tx.try_send(frame) on the channel of line 29
TrySend(q, f) ==
    IF Len(q) < RelayCapacity
    THEN [ok |-> TRUE, q |-> Append(q, f)]
    ELSE [ok |-> FALSE, q |-> q]

\* RelayPop taking the newest frame first
RelayPopNewest(q) == [got |-> q[Len(q)], rest |-> SubSeq(q, 1, Len(q) - 1)]

\* line 82: rx.try_recv() on a channel that holds a frame
RelayPop(q) == [got |-> Head(q), rest |-> Tail(q)]

\* ------------------------------------------------- the Capture Source (§4.1)
SourceAfterStart(ok, st) == IF ok THEN "Capturing" ELSE st

SourceAfterStop(ok, st) == IF ok THEN "Stopped" ELSE st

\* ------------------------------------------------------- main: Render Loop
\* line 79: while window.is_open() && !window.is_key_pressed(Escape, ..)
LoopCheck ==
    /\ pc = "loop_check"
    /\ IF windowOpen /\ ~escPressed
       THEN /\ pc' = "drain"
            /\ hExit' = hExit
            /\ hStartFrame' = current_frame
            /\ hStartQueued' = {relay[n].id : n \in 1..Len(relay)}
            /\ hPopped' = FALSE
       ELSE /\ pc' = "stop_call"
            /\ hExit' = IF ~windowOpen THEN "closed" ELSE "escape"
            /\ UNCHANGED pollVars
    /\ UNCHANGED <<result, dimsResult, chanCreated, current_frame, windowCreated,
                   stopCalls, stopResult, hPolled, hPrevBatch, hSkipped, hShown>>
    /\ UNCHANGED <<relay, envVars, convVars, capVars, srcVars, dimVars, batchVars>>

\* the batch offered between the poll that ended last and the one ending now
CleanBatch == IF hPolled /\ ~hMidPoll THEN hBatch ELSE <<>>

\* TryRecv with `if let` where the source has `while let`: one frame per tick
TryRecvOnce ==
    /\ pc = "drain"
    /\ IF relay # <<>>
       THEN /\ current_frame' = RelayPop(relay).got
            /\ relay' = RelayPop(relay).rest
       ELSE UNCHANGED <<current_frame, relay>>
    /\ pc' = "draw"
    /\ hPrevBatch' = CleanBatch
    /\ hSkipped' = hSkipped
    /\ hBatch' = <<>>
    /\ hMidPoll' = FALSE
    /\ hPolled' = TRUE
    /\ hStartFrame' = NoFrame
    /\ hStartQueued' = {}
    /\ hPopped' = FALSE
    /\ UNCHANGED <<result, dimsResult, chanCreated, windowCreated, stopCalls,
                   stopResult, hExit, hShown>>
    /\ UNCHANGED <<envVars, convVars, capVars, srcVars, dimVars, hLastInserted>>

\* lines 82-84: one rx.try_recv() of the drain; Err ends the poll
TryRecv ==
    /\ pc = "drain"
    /\ IF relay # <<>>
       THEN /\ current_frame' = RelayPop(relay).got
            /\ relay' = RelayPop(relay).rest
            /\ pc' = "drain"
            /\ hPopped' = TRUE
            /\ UNCHANGED <<hBatch, hMidPoll, hPolled, hPrevBatch, hSkipped>>
            /\ UNCHANGED <<hStartFrame, hStartQueued>>
       ELSE /\ pc' = "draw"
            /\ hPrevBatch' = CleanBatch
            /\ hSkipped' = hSkipped \cup
                    ({CleanBatch[n] : n \in 1..Len(CleanBatch)} \ {current_frame.id})
            /\ hBatch' = <<>>
            /\ hMidPoll' = FALSE
            /\ hPolled' = TRUE
            /\ hStartFrame' = NoFrame
            /\ hStartQueued' = {}
            /\ hPopped' = FALSE
            /\ UNCHANGED <<current_frame, relay>>
    /\ UNCHANGED <<result, dimsResult, chanCreated, windowCreated, stopCalls,
                   stopResult, hExit, hShown>>
    /\ UNCHANGED <<envVars, convVars, capVars, srcVars, dimVars, hLastInserted>>

\* line 86: window.update_with_buffer(&current_frame, width, height)?
Draw ==
    /\ pc = "draw"
    /\ \E ok \in BOOLEAN :
        IF ok
        THEN /\ pc' = "loop_check"
             /\ hShown' = hShown \cup {current_frame.id}
             /\ UNCHANGED <<result, hExit>>
        ELSE /\ pc' = "returned"
             /\ result' = "UpdateFailed"
             /\ hExit' = "draw_error"
             /\ hShown' = hShown
    /\ UNCHANGED <<dimsResult, chanCreated, current_frame, windowCreated, stopCalls,
                   stopResult, hPolled, hPrevBatch, hSkipped>>
    /\ UNCHANGED <<relay, envVars, convVars, capVars, srcVars, dimVars, batchVars,
                   pollVars>>

\* ---------------------------------------------------------- main: shutdown
\* line 90: (*capture).as_ref().clone().stop_capturing() is called
StopCall ==
    /\ pc = "stop_call"
    /\ stopCalls' = stopCalls + 1
    /\ pc' = "stop_await"
    /\ UNCHANGED <<result, dimsResult, chanCreated, current_frame, windowCreated,
                   stopResult, hExit, hPolled, hPrevBatch, hSkipped, hShown>>
    /\ UNCHANGED <<relay, envVars, convVars, capVars, srcVars, dimVars, batchVars,
                   pollVars>>

\* StopOutcome with the error dropped (`let _ = ..`)
StopOutcomeSwallowed(ok) == "ok"

\* lines 90-92: `.await?` then Ok(())
StopOutcome(ok) == IF ok THEN "ok" ELSE "CaptureStopFailed"

StopComplete ==
    /\ pc = "stop_await"
    /\ \E ok \in BOOLEAN :
        /\ stopResult' = IF ok THEN "ok" ELSE "err"
        /\ capState' = SourceAfterStop(ok, capState)
        /\ result' = StopOutcome(ok)
    /\ pc' = "returned"
    /\ UNCHANGED <<dimsResult, chanCreated, current_frame, windowCreated, stopCalls,
                   hExit, hPolled, hPrevBatch, hSkipped, hShown>>
    /\ UNCHANGED <<rawQ, streamClosed, arrived>>
    /\ UNCHANGED <<relay, envVars, convVars, capVars, dimVars, batchVars,
                   pollVars>>

\* ---------------------------------------------------- the conversion task
\* line 37: recv.lock().await
ConvLock ==
    /\ Running
    /\ convPc = "lock"
    /\ ~lockHeld
    /\ lockHeld' = TRUE
    /\ convPc' = "recv"
    /\ UNCHANGED <<data, frame_u32, hConvLast>>
    /\ UNCHANGED <<mainVars, relay, envVars, capVars, srcVars, dimVars, batchVars>>

\* ConvRecv with the guard bound outside the block: it is not dropped
ConvRecvKeepsGuard ==
    /\ Running
    /\ convPc = "recv"
    /\ IF rawQ # <<>>
       THEN /\ data' = <<Head(rawQ)>>
            /\ rawQ' = Tail(rawQ)
       ELSE /\ streamClosed
            /\ data' = <<>>
            /\ rawQ' = rawQ
    /\ lockHeld' = lockHeld
    /\ convPc' = "match"
    /\ UNCHANGED <<frame_u32, hConvLast>>
    /\ UNCHANGED <<capState, streamClosed, arrived>>
    /\ UNCHANGED <<mainVars, relay, envVars, capVars, dimVars, batchVars>>

\* lines 38-39: guard.recv().await, then the guard is dropped
ConvRecv ==
    /\ Running
    /\ convPc = "recv"
    /\ IF rawQ # <<>>
       THEN /\ data' = <<Head(rawQ)>>
            /\ rawQ' = Tail(rawQ)
       ELSE /\ streamClosed
            /\ data' = <<>>
            /\ rawQ' = rawQ
    /\ lockHeld' = FALSE
    /\ convPc' = "match"
    /\ UNCHANGED <<frame_u32, hConvLast>>
    /\ UNCHANGED <<capState, streamClosed, arrived>>
    /\ UNCHANGED <<mainVars, relay, envVars, capVars, dimVars, batchVars>>

\* ConvMatch with `break` where the source has `continue`
ConvMatchBreaks ==
    /\ Running
    /\ convPc = "match"
    /\ IF data = <<>>
       THEN /\ convPc' = "done"
            /\ hConvLast' = "ended"
       ELSE IF Len(data[1].bytes) = 0
       THEN /\ convPc' = "done"
            /\ hConvLast' = "skipped"
       ELSE /\ convPc' = "convert"
            /\ hConvLast' = hConvLast
    /\ UNCHANGED <<lockHeld, data, frame_u32>>
    /\ UNCHANGED <<mainVars, relay, envVars, capVars, srcVars, dimVars, batchVars>>

\* lines 41-44 and 57-59: None breaks, an empty frame continues
ConvMatch ==
    /\ Running
    /\ convPc = "match"
    /\ IF data = <<>>
       THEN /\ convPc' = "done"
            /\ hConvLast' = "ended"
       ELSE IF Len(data[1].bytes) = 0
       THEN /\ convPc' = "lock"
            /\ hConvLast' = "skipped"
       ELSE /\ convPc' = "convert"
            /\ hConvLast' = hConvLast
    /\ UNCHANGED <<lockHeld, data, frame_u32>>
    /\ UNCHANGED <<mainVars, relay, envVars, capVars, srcVars, dimVars, batchVars>>

\* lines 47-53: the conversion; an index out of bounds panics the task
ConvConvert ==
    /\ Running
    /\ convPc = "convert"
    /\ IF ConvertPanics(data[1].bytes, width, height)
       THEN /\ convPc' = "panicked"
            /\ hConvLast' = "panicked"
            /\ frame_u32' = frame_u32
       ELSE /\ convPc' = "send"
            /\ hConvLast' = hConvLast
            /\ frame_u32' = [id |-> data[1].id,
                             px |-> Convert(data[1].bytes, width, height)]
    /\ UNCHANGED <<lockHeld, data>>
    /\ UNCHANGED <<mainVars, relay, envVars, capVars, srcVars, dimVars, batchVars>>

\* ConvSend with tx.send(frame_u32).await: the task waits for room
ConvSendBlocking ==
    /\ Running
    /\ convPc = "send"
    /\ Len(relay) < RelayCapacity
    /\ relay' = Append(relay, frame_u32)
    /\ hConvLast' = "published"
    /\ hBatch' = Append(hBatch, frame_u32.id)
    /\ hLastInserted' = frame_u32.id
    /\ hMidPoll' = (hMidPoll \/ pc = "drain")
    /\ convPc' = "lock"
    /\ UNCHANGED <<lockHeld, data, frame_u32>>
    /\ UNCHANGED <<mainVars, envVars, capVars, srcVars, dimVars>>

\* line 56: let _ = tx.try_send(frame_u32)
ConvSend ==
    /\ Running
    /\ convPc = "send"
    /\ relay' = TrySend(relay, frame_u32).q
    /\ hConvLast' = IF TrySend(relay, frame_u32).ok THEN "published" ELSE "dropped"
    /\ hBatch' = Append(hBatch, frame_u32.id)
    /\ hLastInserted' = IF TrySend(relay, frame_u32).ok THEN frame_u32.id
                        ELSE hLastInserted
    /\ hMidPoll' = (hMidPoll \/ pc = "drain")
    /\ convPc' = "lock"
    /\ UNCHANGED <<lockHeld, data, frame_u32>>
    /\ UNCHANGED <<mainVars, envVars, capVars, srcVars, dimVars>>

\* ------------------------------------------------ the capture-driving task
\* lines 67-70: capture_clone.start_capturing() is called
CapStartCall ==
    /\ Running
    /\ capPc = "start"
    /\ startCalls' = startCalls + 1
    /\ capPc' = "starting"
    /\ UNCHANGED <<mainVars, relay, envVars, convVars, srcVars, dimVars, batchVars>>

\* lines 71-72: .await.expect("Could not capture, failed.")
CapStartResolve ==
    /\ Running
    /\ capPc = "starting"
    /\ \E ok \in BOOLEAN :
        /\ capPc' = IF ok THEN "capturing" ELSE "panicked"
        /\ capState' = SourceAfterStart(ok, capState)
    /\ UNCHANGED <<startCalls, rawQ, streamClosed, arrived>>
    /\ UNCHANGED <<mainVars, relay, envVars, convVars, dimVars, batchVars>>

\* --------------------------------------------- the Capture Source's stream
\* a capturing source delivers the next Raw Frame to the receive endpoint
Deliver ==
    /\ Running
    /\ capState = "Capturing"
    /\ ~streamClosed
    /\ arrived < MaxFrames
    /\ Len(rawQ) < MaxRawQueue
    /\ \E len \in RawLens(width, height) :
        rawQ' = Append(rawQ, [id |-> arrived + 1, bytes |-> RawOf(arrived + 1, len)])
    /\ arrived' = arrived + 1
    /\ UNCHANGED <<capState, streamClosed>>
    /\ UNCHANGED <<mainVars, relay, envVars, convVars, capVars, dimVars, batchVars>>

\* the stream's last sender goes away: recv() yields None once rawQ is empty
CloseStream ==
    /\ Running
    /\ startCalls > 0
    /\ ~streamClosed
    /\ streamClosed' = TRUE
    /\ UNCHANGED <<capState, rawQ, arrived>>
    /\ UNCHANGED <<mainVars, relay, envVars, convVars, capVars, dimVars, batchVars>>

\* ------------------------------------------------------- the window's user
CloseWindow ==
    /\ Running
    /\ windowCreated
    /\ windowOpen
    /\ windowOpen' = FALSE
    /\ UNCHANGED <<mainVars, relay, escPressed, convVars, capVars, srcVars, dimVars,
                   batchVars>>

PressEscape ==
    /\ Running
    /\ windowCreated
    /\ ~escPressed
    /\ escPressed' = TRUE
    /\ UNCHANGED <<mainVars, relay, windowOpen, convVars, capVars, srcVars, dimVars,
                   batchVars>>

\* ------------------------------------------------------------------- Spec
Next ==
    \/ GetDimensions
    \/ CreateChannel
    \/ SpawnConversion
    \/ SpawnCapture
    \/ InitFrame
    \/ CreateWindow
    \/ LoopCheck
    \/ TryRecv
    \/ Draw
    \/ StopCall
    \/ StopComplete
    \/ ConvLock
    \/ ConvRecv
    \/ ConvMatch
    \/ ConvConvert
    \/ ConvSend
    \/ CapStartCall
    \/ CapStartResolve
    \/ Deliver
    \/ CloseStream
    \/ CloseWindow
    \/ PressEscape

Spec == Init /\ [][Next]_vars

\* The program while its user leaves the window open and the cancel key alone
NextOpen ==
    \/ GetDimensions
    \/ CreateChannel
    \/ SpawnConversion
    \/ SpawnCapture
    \/ InitFrame
    \/ CreateWindow
    \/ LoopCheck
    \/ TryRecv
    \/ Draw
    \/ ConvLock
    \/ ConvRecv
    \/ ConvMatch
    \/ ConvConvert
    \/ ConvSend
    \/ CapStartCall
    \/ CapStartResolve
    \/ Deliver
    \/ CloseStream

\* main runs on the runtime's own thread (block_on): a step of the Render Loop
\* that can be taken is taken
SpecFair ==
    /\ Init
    /\ [][NextOpen]_vars
    /\ WF_vars(LoopCheck)
    /\ WF_vars(TryRecv)
    /\ WF_vars(Draw)

\* ------------------------------------------- the conversion step on its own
\* The pipeline is set up and the conversion task has received a non-empty Raw
\* Frame: any length up to width*height*4, bytes from ByteSamples moved by a
\* stride from pixel to pixel.
InitConv ==
    /\ width \in 1..MaxWidth
    /\ height \in 1..MaxHeight
    /\ pc = "loop_check"
    /\ result = "none"
    /\ dimsResult = "ok"
    /\ chanCreated = TRUE
    /\ relay = <<>>
    /\ current_frame = [id |-> 0, px |-> Black(width, height)]
    /\ windowCreated = TRUE
    /\ windowOpen = TRUE
    /\ escPressed = FALSE
    /\ convPc = "convert"
    /\ lockHeld = FALSE
    /\ \E base \in ByteSamples \X ByteSamples \X ByteSamples \X ByteSamples :
       \E stride \in 0..MaxStride :
       \E len \in 1..FullLen(width, height) :
            data = <<[id |-> 1, bytes |-> RawBytes(base, stride, len)]>>
    /\ frame_u32 = NoFrame
    /\ capPc = "capturing"
    /\ capState = "Capturing"
    /\ startCalls = 1
    /\ stopCalls = 0
    /\ stopResult = "none"
    /\ rawQ = <<>>
    /\ streamClosed = FALSE
    /\ arrived = 1
    /\ hConvLast = "none"
    /\ hExit = "none"
    /\ hBatch = <<>>
    /\ hMidPoll = FALSE
    /\ hPolled = FALSE
    /\ hPrevBatch = <<>>
    /\ hSkipped = {}
    /\ hShown = {}
    /\ hLastInserted = 0
    /\ hStartFrame = NoFrame
    /\ hStartQueued = {}
    /\ hPopped = FALSE

NextConv ==
    \/ ConvConvert
    \/ ConvSend

SpecConv == InitConv /\ [][NextConv]_vars

\* ----------------------------------------------------------------- claims
Min(a, b) == IF a < b THEN a ELSE b

\* C1: in every reachable state the Frame Relay holds at most 2 (its capacity)
\* pending Converted Frames, whatever the interleaving and the producer's rate.
C1_RelayBounded == Len(relay) <= RelayCapacity

\* the relay is full and a further frame was offered and dropped
C1_Witness == Len(relay) = RelayCapacity /\ hConvLast = "dropped"

C3_ConvertExact ==
    (convPc = "send" /\ Len(data[1].bytes) = FullLen(width, height)) =>
        LET raw == data[1].bytes
            px == frame_u32.px
        IN  /\ Len(px) = width * height
            /\ \A i \in 0..(width * height - 1) :
                /\ px[i + 1] = raw[4 * i + 3] * 65536 + raw[4 * i + 2] * 256 + raw[4 * i + 1]
                /\ px[i + 1] < 16777216
            /\ \A a \in ByteSamples :
                Convert([j \in 1..Len(raw) |-> IF j % 4 = 0 THEN a ELSE raw[j]],
                        width, height) = px

\* a full frame with three different colour bytes and a non-zero alpha was converted
C3_Witness ==
    /\ convPc = "send"
    /\ Len(data[1].bytes) = FullLen(width, height)
    /\ data[1].bytes[1] = 255 /\ data[1].bytes[2] = 1
    /\ data[1].bytes[3] = 128 /\ data[1].bytes[4] = 255
    /\ frame_u32.px[1] = 8388608 + 256 + 255
    /\ width * height >= 2

\* C4 as stated: a step of the conversion task on a non-empty Raw Frame shorter
\* than width*height*4 bytes produces no Converted Frame, publishes nothing, does
\* not fail, and takes the task to its next receive.
C4_Original ==
    [][(/\ convPc = "convert"
        /\ Len(data[1].bytes) < FullLen(width, height)
        /\ convPc' # convPc)
            => (/\ convPc' = "lock"
                /\ frame_u32' = frame_u32
                /\ relay' = relay)]_vars

\* C5: the conversion task's step on an empty Raw Frame publishes nothing, leaves
\* the relay and the Displayed Frame as they are, and takes the task back to
\* acquiring the lock for the next receive (it does not end).
C5_EmptySkipped ==
    [][(/\ convPc = "match"
        /\ data # <<>>
        /\ Len(data[1].bytes) = 0
        /\ convPc' # convPc)
            => (/\ convPc' = "lock"
                /\ relay' = relay
                /\ current_frame' = current_frame
                /\ hBatch' = hBatch
                /\ ~lockHeld')]_vars

\* an empty frame was skipped and the task is back at the start of its loop
C5_Witness ==
    /\ hConvLast = "skipped"
    /\ convPc = "lock"
    /\ data # <<>>
    /\ Len(data[1].bytes) = 0

\* C6 as stated: the Render Loop ends only because the window closed or the
\* cancel key was seen, and whenever it has ended and main has returned, exactly
\* one stop_capturing() call was made (never two).
C6_Original ==
    /\ hExit # "none" => hExit \in {"closed", "escape"}
    /\ (pc = "returned" /\ hExit # "none") => stopCalls = 1
    /\ stopCalls <= 1

\* C7: Raw Frames are converted in arrival order (each received frame is the
\* successor of the one received before it, each converted frame is later than
\* the one converted before it), and whenever the Displayed Frame changes it
\* changes to a frame that arrived later.
C7_NoReorder ==
    [][/\ (data # <<>> /\ data' # <<>> /\ data' # data)
            => data'[1].id = data[1].id + 1
       /\ frame_u32' # frame_u32 => frame_u32'.id > frame_u32.id
       /\ current_frame'.id # current_frame.id
            => current_frame'.id > current_frame.id]_vars

\* frame 1 was drawn, frame 2 was skipped, frame 3 is displayed
C7_Witness ==
    /\ current_frame.id = 3
    /\ 1 \in hShown
    /\ 2 \notin hShown
    /\ 3 \in hShown

\* C8 as stated: once start_capturing() has failed in the capture-driving task,
\* the window is not opened if it was not open, and no further window update
\* (no further Render Loop tick) happens.
C8_Original ==
    [][capPc = "panicked"
        => (/\ windowCreated' = windowCreated
            /\ ~(pc = "draw" /\ pc' = "loop_check"))]_vars

\* C9: if get_dimensions() failed, main has returned SourceUnavailable with the
\* conversion task and the capture-driving task not spawned, the Frame Relay
\* and the window not created, and no start_capturing() or stop_capturing() call.
C9_DimsFailureAborts ==
    dimsResult = "err" =>
        /\ pc = "returned"
        /\ result = "SourceUnavailable"
        /\ convPc = "unspawned"
        /\ capPc = "unspawned"
        /\ ~chanCreated
        /\ ~windowCreated
        /\ startCalls = 0
        /\ stopCalls = 0

\* get_dimensions() failed and main returned
C9_Witness == dimsResult = "err" /\ pc = "returned"

\* C10: once the Render Loop has ended by window-close or cancel key, main
\* returns only after stop_capturing() has completed, and then it returns an
\* error exactly if stop_capturing() failed.
C10_StopResultReturned ==
    hExit \in {"closed", "escape"} =>
        /\ pc = "returned" => stopResult # "none"
        /\ pc = "returned" => (result = "CaptureStopFailed" <=> stopResult = "err")
        /\ pc = "returned" => (result = "ok" <=> stopResult = "ok")
        /\ pc # "returned" => result = "none"

\* the loop ended on the cancel key, stop_capturing() failed, main returned it
C10_Witness ==
    /\ hExit = "escape"
    /\ pc = "returned"
    /\ stopResult = "err"
    /\ result = "CaptureStopFailed"

\* C11: when a poll ends, the Displayed Frame is the last frame that was put
\* into the relay (the black frame if none ever was), it is the frame displayed
\* before the poll if the poll took nothing, every frame that was queued when
\* the poll started has left the relay, and a poll that started on queued
\* frames has taken some.
C11_PollResult ==
    [][(pc = "drain" /\ pc' = "draw") =>
        /\ current_frame'.id = hLastInserted
        /\ ~hPopped => current_frame' = hStartFrame
        /\ \A n \in 1..Len(relay') : relay'[n].id \notin hStartQueued
        /\ hStartQueued # {} => hPopped]_vars

\* a poll that started on two queued frames has ended on the second
C11_Witness ==
    /\ pc = "draw"
    /\ hPrevBatch = <<1, 2>>
    /\ current_frame.id = 2
    /\ hLastInserted = 2
    /\ relay = <<>>

\* C12: the conversion task's publish step on a relay that holds 2 frames leaves
\* the two queued frames and their order as they are, discards the new frame,
\* and takes the task to its next receive with no error; and whenever the task
\* is at its publish step, the step can be taken (the task never waits there).
C12_FullRelayDrops ==
    /\ [][(/\ convPc = "send"
           /\ Len(relay) = RelayCapacity
           /\ convPc' # convPc)
                => (/\ relay' = relay
                    /\ convPc' = "lock"
                    /\ hConvLast' = "dropped"
                    /\ hLastInserted' = hLastInserted)]_vars
    /\ []((convPc = "send" /\ Running) => ENABLED ConvSend)

\* a frame newer than the two queued ones was offered and discarded
C12_Witness ==
    /\ hConvLast = "dropped"
    /\ convPc = "lock"
    /\ Len(relay) = RelayCapacity
    /\ relay[1].id < relay[2].id
    /\ relay[2].id < frame_u32.id
    /\ hLastInserted = relay[2].id

\* current_frame has been created (line 75 was passed)
FrameExists ==
    \/ pc \in {"create_window", "loop_check", "drain", "draw", "stop_call",
               "stop_await", "panicked"}
    \/ (pc = "returned" /\ dimsResult = "ok")

\* C13: once it exists, the Displayed Frame has exactly width*height values; it
\* is all zero as long as no frame was taken from the relay; it changes only
\* when it is created and when the poll takes a frame from the relay; every
\* frame in the relay has width*height values.
C13_FrameShape ==
    /\ [](/\ FrameExists => Len(current_frame.px) = width * height
          /\ (FrameExists /\ current_frame.id = 0)
                => \A k \in 1..Len(current_frame.px) : current_frame.px[k] = 0
          /\ \A n \in 1..Len(relay) : Len(relay[n].px) = width * height)
    /\ [][current_frame' # current_frame
            => \/ pc = "init_frame"
               \/ (pc = "drain" /\ pc' = "drain" /\ Len(relay') < Len(relay))]_vars

\* the black frame was drawn, and now a two-pixel frame from the relay is drawn
C13_Witness ==
    /\ pc = "draw"
    /\ 0 \in hShown
    /\ current_frame.id >= 1
    /\ width * height = 2
    /\ Len(current_frame.px) = 2

\* C14: the conversion task holds the lock on the receive endpoint only while it
\* waits for and receives a Raw Frame: not at its publish step, not when it
\* acquires the lock again, not after an iteration that skipped an empty frame.
C14_LockScope == lockHeld => convPc = "recv"

\* after an iteration that skipped an empty frame, the task is publishing
C14_Witness ==
    /\ convPc = "send"
    /\ ~lockHeld
    /\ hConvLast = "skipped"

\* C15 as stated: stop_capturing() is called only after start_capturing() was
\* called, and start_capturing() is not called once stop_capturing() was called.
C15_Original ==
    [][/\ stopCalls' > stopCalls => startCalls > 0
       /\ startCalls' > startCalls => stopCalls = 0]_vars

\* C16 as stated: every tick that starts draining reaches its draw step and then
\* its next check of the window-closed/cancel-key condition; so the step main
\* takes from the drain leads to the draw step, and the step it takes from the
\* draw step leads to the next check.
C16_Original ==
    [][/\ (pc = "drain" /\ pc' # pc) => pc' = "draw"
       /\ (pc = "draw" /\ pc' # pc) => pc' = "loop_check"]_vars

\* the drain itself ends: a tick that is draining reaches its draw step
DrainReachesDraw == (pc = "drain") ~> (pc = "draw")

\* the window is closed, or gone because main has returned or panicked (the
\* Window of line 77 is dropped with main's frame)
WindowGone == ~windowOpen \/ ~Running

InRelay(k) == \E n \in 1..Len(relay) : relay[n].id = k

C18_Original ==
    [][/\ (convPc = "match" /\ data = <<>> /\ convPc' # convPc)
            => (convPc' = "done" /\ ~lockHeld')
       /\ convPc = "done"
            => (/\ convPc' = "done"
                /\ ~lockHeld'
                /\ Len(relay') <= Len(relay)
                /\ hLastInserted' = hLastInserted)
       /\ (convPc = "done" /\ pc = "drain" /\ relay # <<>> /\ relay' # relay)
            => current_frame' = Head(relay)
       /\ (/\ convPc = "done"
           /\ pc \in {"loop_check", "drain", "draw"}
           /\ pc' \notin {"loop_check", "drain", "draw"})
            => (~windowOpen \/ escPressed)]_vars

====
